---------------------------- MODULE Spec2Model ----------------------------
(***************************************************************************)
(* NeuroMotion_Pi: the multi-sensor tremor collector (main.py) and its     *)
(* MQTT transport (src/transport/mqtt_data_service.py).                    *)
(*                                                                         *)
(* Time is counted in sampling intervals (1 / sampling_rate seconds), so   *)
(* one second is SamplingRate units and time.sleep(sampling_interval)      *)
(* lasts at least one unit.                                                *)
(***************************************************************************)
EXTENDS Integers, Sequences, FiniteSets, TLC

VARIABLES
    sensorNames,    \* names of config.get('sensors'): keys of self.sensors / self.buffers
    filter_cutoff,  \* config 'processing'/'filter_cutoff'
    bus,            \* bus[s]: ADXL345.bus is not None
    buffers,        \* self.buffers[name][axis]
    sample_count,   \* run(): sample_count
    pc,             \* where run() is: "start", "loop", "returned", "raised"
    closed,         \* what the finally block of run() has called close() on so far
    raisedBy,       \* history: what raised the exception that ended run(), "none" if nothing did
    now,            \* time.time()
    client,         \* MQTTDataService.client is not None
    net,            \* paho network loop: "none", "running", "stopped"
    connected,      \* MQTTDataService.connected
    last_pub_time,  \* MQTTDataService._last_pub_time
    ticks,          \* history: iterations of the while loop of run() so far
    lastRead,       \* history: what each sensor.read() gave in the latest iteration
    lastCycle,      \* history: what process_and_send did in the latest iteration
    lastSend,       \* history: the latest call of MQTTDataService.send
    okPub,          \* history: time of the latest publish that returned rc = 0
    sends,          \* history: number of calls of MQTTDataService.send
    sinceFwd,       \* history: calls of send on a connected client since the latest publish
    connSends,      \* history: calls of send that found the client connected
    hist,           \* history: samples handed to direct calls of update_buffers
    proc,           \* history: the latest direct call of TremorProcessor.process
    inSend,         \* a direct call of send() between its checks and client.publish, or <<>>
    pubCtx          \* history: the connection when a direct call of send() last reached client.publish

vars == <<sensorNames, filter_cutoff, bus, buffers, sample_count, pc, closed,
          raisedBy, now, client, net, connected, last_pub_time, ticks, lastRead,
          lastCycle, lastSend, okPub, sends, sinceFwd, connSends, hist, proc,
                   inSend, pubCtx>>

collectorVars == <<sensorNames, filter_cutoff, bus, buffers, sample_count, pc,
                   closed, raisedBy, ticks, lastRead, lastCycle>>
transportVars == <<client, net, connected, last_pub_time, lastSend, okPub, sends,
                   sinceFwd, connSends, inSend, pubCtx>>

----------------------------------------------------------------------------
(* Bounds of the model *)

\* window_size of the configuration (256 by default), scaled down
WindowSize == 2
\* direct calls of update_buffers per sensor go up to WindowSize + ExtraAppends
ExtraAppends == 2
\* iterations of the while loop of run() explored under Spec
MaxTicks == 4

(* Program constants *)

\* 'sampling_rate': 100
SamplingRate == 100
\* 'filter_cutoff': 12
FilterCutoff == 12
\* if now - self._last_pub_time < 1.0
MinPubSec == 1
\* Variant for C9: _last_pub_time initialised to time.time() at construction
LastPubInitNow == SamplingRate
\* self._last_pub_time = 0.0
InitLastPubTime == 0
\* if sample_count % 100 == 0
StatusEvery == 100
\* 'decimation_factor': 10
DecimationFactor == 10
\* 'summary_window_sec': 3
SummaryWindowSec == 3

\* tremor_band, and the tenths in the threshold 0.3 of is_parkinsonian
TremorBandLow == 3

TremorBandHigh == 6

IndexThresholdTenths == 3

Sec(n) == n * SamplingRate
Axes == {"x", "y", "z"}

\* Sensor name sets a configuration file may give; the default one has
\* 'torso', 'left_hand' and 'right_hand'.
SensorConfigs == {{"torso", "left_hand"}, {"left_hand", "right_hand"}}

\* What ADXL345.read returns on success: x, y, z in g (the timestamp key is
\* never read by the collector).
Samples == {[x |-> 1, y |-> 2, z |-> 3], [x |-> 4, y |-> 5, z |-> 6]}

----------------------------------------------------------------------------
(* MultiSensorDataCollector.update_buffers *)

\* Python's s[-n:]
SliceLast(s, n) ==
    IF n = 0 THEN s
    ELSE IF n < 0 THEN SubSeq(s, 1 - n, Len(s))
    ELSE IF n >= Len(s) THEN s
    ELSE SubSeq(s, Len(s) - n + 1, Len(s))

\* Variant for C1: the slice keeps the head, [:window_size], not the tail
AppendAxisKeepHead(buf, v) ==
    IF Len(buf) < WindowSize THEN Append(buf, v) ELSE SubSeq(buf, 1, WindowSize)

\* np.append(buf, v)[-self.window_size:]
AppendAxis(buf, v) == SliceLast(Append(buf, v), WindowSize)

\* Variant for C2: line 68 assigns to 'y' a second time, so 'z' never grows
update_buffers_y_twice(bufs, readings) ==
    [s \in DOMAIN bufs |->
        IF s \in DOMAIN readings
        THEN [a \in Axes |->
                IF a = "x" THEN AppendAxis(bufs[s]["x"], readings[s]["x"])
                ELSE IF a = "y" THEN AppendAxis(bufs[s]["y"], readings[s]["z"])
                ELSE bufs[s]["z"]]
        ELSE bufs[s]]

\* Variant for C18: a tumbling window, a full buffer starts over with the
\* new sample
update_buffers_tumbling(bufs, readings) ==
    [s \in DOMAIN bufs |->
        IF s \in DOMAIN readings
        THEN [a \in Axes |->
                IF Len(bufs[s][a]) >= WindowSize THEN <<readings[s][a]>>
                ELSE Append(bufs[s][a], readings[s][a])]
        ELSE bufs[s]]

\* readings: a function from the names that were read to their samples
update_buffers(bufs, readings) ==
    [s \in DOMAIN bufs |->
        IF s \in DOMAIN readings
        THEN [a \in Axes |-> AppendAxis(bufs[s][a], readings[s][a])]
        ELSE bufs[s]]

EmptyBuffers(names) == [s \in names |-> [a \in Axes |-> <<>>]]

\* Every function from a subset of names to Samples
ReadingsOver(names) == UNION {[d -> Samples] : d \in SUBSET names}

----------------------------------------------------------------------------
(* MultiSensorDataCollector.process_and_send *)

\* Variant for C3: the check returns only when every buffer is short
ReadyAny(bufs) == \E s \in DOMAIN bufs : ~(Len(bufs[s]["x"]) < WindowSize)

\* the loop of lines 73-75 falls through: no buffer['x'] is shorter than window_size
Ready(bufs) == \A s \in DOMAIN bufs : ~(Len(bufs[s]["x"]) < WindowSize)

\* ButterworthLowPass.apply: butter() rejects a normalised cutoff
\* cutoff / (0.5 * fs) outside (0, 1)
FilterRaises(cutoff, fs) == 2 * cutoff >= fs

\* so TremorProcessor.process of the collector raises
ProcessRaises == FilterRaises(filter_cutoff, SamplingRate)

\* The windows the features of a packet are computed from. process() is a
\* function of its input series alone (the filter keeps no state), so equal
\* windows give equal feature sets.
PacketWindows(bufs) == bufs

----------------------------------------------------------------------------
(* TremorProcessor.process, in exact arithmetic.                            *)
(*                                                                          *)
(* The series x is the output of the low-pass filter (filtfilt is linear    *)
(* and keeps the length, so it maps the zero series to the zero series).    *)
(* Series are as short as the windows of this model are, 2 * WindowSize     *)
(* integers, and for the lengths 1, 2, 3, 4 and 6 the squared magnitude of  *)
(* every DFT bin is a rational number: with every angle a multiple of 60    *)
(* or of 90 degrees, 2 cos is an integer and 2 sin is an integer or an      *)
(* integer times the square root of 3. Spectral powers are carried times 4; *)
(* ratios and comparisons of powers do not see the factor. A rational is a  *)
(* record [n, d].                                                           *)

\* Sampling rates of the processors that are called directly: bins of the
\* short series fall inside and outside the tremor band
ProcRates == {8, 16, SamplingRate}

\* The cut-offs those processors are built with: half of Nyquist, and Nyquist
\* itself, which butter() rejects
ProcCutoffs(fs) == {fs \div 4, fs \div 2}

Amplitudes == {-1, 0, 1}

SeriesLen == 2 * WindowSize

SeriesSet == [1..SeriesLen -> Amplitudes]

\* 2 cos, the rational part of 2 sin, and the multiple of sqrt(3) in 2 sin,
\* of an angle of m * 30 degrees, m in {0, 2, 3, 4, 6, 8, 9, 10}
Cos2(m) ==
    CASE m = 0 -> 2 [] m \in {2, 10} -> 1 [] m \in {3, 9} -> 0
      [] m \in {4, 8} -> -1 [] OTHER -> -2

Sin2Rat(m) == CASE m = 3 -> 2 [] m = 9 -> -2 [] OTHER -> 0

Sin2Root3(m) == CASE m \in {2, 4} -> 1 [] m \in {8, 10} -> -1 [] OTHER -> 0

\* The angle 2 pi k n / N of the DFT, in units of 30 degrees (N divides 12)
Angle(N, k, n) == ((12 \div N) * k * n) % 12

RECURSIVE SumOver(_, _)
\* np.sum of f over the index set S
SumOver(f, S) ==
    IF S = {} THEN 0
    ELSE LET k == CHOOSE j \in S : TRUE IN f[k] + SumOver(f, S \ {k})

\* 4 * np.abs(rfft(x)[k]) ** 2
FftPower4(x, k) ==
    LET N  == Len(x)
        re == SumOver([n \in 1..N |-> x[n] * Cos2(Angle(N, k, n - 1))], 1..N)
        ir == SumOver([n \in 1..N |-> x[n] * Sin2Rat(Angle(N, k, n - 1))], 1..N)
        iq == SumOver([n \in 1..N |-> x[n] * Sin2Root3(Angle(N, k, n - 1))], 1..N)
    IN  re * re + ir * ir + 3 * iq * iq

\* The indices of rfftfreq(N, 1 / fs): freqs[k] = k * fs / N
Bins(N) == 0..(N \div 2)

\* tremor_band[0] <= f <= tremor_band[1] for the rational f
InBand(f) == TremorBandLow * f.d <= f.n /\ f.n <= TremorBandHigh * f.d

\* Variant for C15: the band's bins counted for both halves of the spectrum
tremor_power_two_sided(power, mask) ==
    IF mask # {} THEN 2 * SumOver(power, mask) ELSE 0

\* np.sum(fft_magnitude[tremor_mask]**2) if np.any(tremor_mask) else 0
tremor_power(power, mask) ==
    IF mask # {} THEN SumOver(power, mask) ELSE 0

\* Variant for C16: the DC bin left out of the search for the dominant bin
argmax_skip_dc(power) ==
    CHOOSE k \in DOMAIN power \ {0} :
        /\ \A j \in DOMAIN power \ {0} : power[j] <= power[k]
        /\ \A j \in DOMAIN power \ {0} : j < k => power[j] < power[k]

\* np.argmax: the first index of the maximum
argmax(power) ==
    CHOOSE k \in DOMAIN power :
        /\ \A j \in DOMAIN power : power[j] <= power[k]
        /\ \A j \in DOMAIN power : j < k => power[j] < power[k]

\* Variant for C17: the quotient taken without the test of total_power
tremor_index_unguarded(tp, total) == [n |-> tp, d |-> total]

\* tremor_power / total_power if total_power > 0 else 0
tremor_index(tp, total) ==
    IF total > 0 THEN [n |-> tp, d |-> total] ELSE [n |-> 0, d |-> 1]

\* tremor_index > 0.3
AboveThreshold(idx) == 10 * idx.n > IndexThresholdTenths * idx.d

\* What process() returns for the filtered series x at sampling rate fs;
\* rms is returned squared
process(x, fs) ==
    LET N     == Len(x)
        power == [k \in Bins(N) |-> FftPower4(x, k)]
        mask  == {k \in Bins(N) : InBand([n |-> k * fs, d |-> N])}
        tp    == tremor_power(power, mask)
        total == SumOver(power, Bins(N))
        dom   == argmax(power)
        freq  == [n |-> dom * fs, d |-> N]
        index == tremor_index(tp, total)
    IN  [rms_sq          |-> [n |-> SumOver([n \in 1..N |-> x[n] * x[n]], 1..N),
                              d |-> N],
         dominant_freq   |-> freq,
         tremor_power    |-> [n |-> tp, d |-> 4],
         tremor_index    |-> index,
         is_parkinsonian |-> InBand(freq) /\ AboveThreshold(index)]

NoOutput == [rms_sq |-> [n |-> 0, d |-> 1], dominant_freq |-> [n |-> 0, d |-> 1],
             tremor_power |-> [n |-> 0, d |-> 1],
             tremor_index |-> [n |-> 0, d |-> 1], is_parkinsonian |-> FALSE]

\* No direct call of process() yet
NoProc == [st |-> "none", x |-> <<>>, fs |-> 0, cutoff |-> 0, out |-> NoOutput]

----------------------------------------------------------------------------
(* MQTTDataService.send *)

\* Variant for C5: the interval taken in sampling intervals, not in seconds
ThrottledShort(t, last) == t - last < MinPubSec

\* now - self._last_pub_time < 1.0
Throttled(t, last) == t - last < Sec(MinPubSec)

\* What result.rc / the exception of client.publish can be
PubOutcomes == {"pub_ok", "pub_rc", "pub_exc"}

\* Where send() leaves: pubres is what client.publish does if it is called
send_result(pubres) ==
    IF ~client THEN "no_client"
    ELSE IF ~connected THEN "not_connected"
    ELSE IF Throttled(now, last_pub_time) THEN "throttled"
    ELSE pubres

\* self._last_pub_time after send(): line 139 runs before client.publish
send_last_pub(res) ==
    IF res \in PubOutcomes THEN now ELSE last_pub_time

\* Variant for C19: a throttled cycle reported as a failed send
send_returns_published(res) == res = "pub_ok"

\* data.update(...) of lines 131-135 has run: it comes after the two
\* connection checks and before the interval check
send_stamps(res) == res \notin {"no_client", "not_connected"}

\* the value send() returns
send_returns(res) == res \in {"throttled", "pub_ok"}

\* send(data_packet) at time now, the packet built from the windows feat
Send(feat, pubres) ==
    LET res == send_result(pubres) IN
    /\ last_pub_time' = send_last_pub(res)
    /\ sends' = sends + 1
    /\ okPub' = IF res = "pub_ok" THEN <<now>> ELSE okPub
    /\ sinceFwd' = IF res \in PubOutcomes THEN 0
                   ELSE IF res = "throttled" THEN sinceFwd + 1
                   ELSE sinceFwd
    /\ connSends' = IF res \in PubOutcomes \cup {"throttled"}
                    THEN connSends + 1 ELSE connSends
    /\ lastSend' = [res |-> res, ret |-> send_returns(res), t |-> now,
                    before |-> last_pub_time, okBefore |-> okPub,
                    stamped |-> send_stamps(res),
                    feat |-> feat, gap |-> sinceFwd + 1,
                    dup |-> lastSend.res = "pub_ok" /\ lastSend.feat = feat]

\* What the connection is when client.publish is called: closed by close(),
\* or as the latest of the two callbacks left self.connected
PublishContext ==
    IF net = "stopped" THEN "closed"
    ELSE IF connected THEN "connected" ELSE "disconnected"

\* send() called directly, up to the call of client.publish: lines 122-145.
\* A call that returns before line 139 is the whole call; the callbacks of
\* the network thread can run before the other reaches client.publish.
SendBegin(feat) ==
    /\ pc = "start"
    /\ inSend = <<>>
    /\ sends < MaxTicks
    /\ IF send_result("pub_ok") \in PubOutcomes
       THEN /\ inSend' = <<[feat |-> feat, t |-> now, before |-> last_pub_time]>>
            /\ last_pub_time' = now
            /\ UNCHANGED <<lastSend, okPub, sends, sinceFwd, connSends>>
       ELSE /\ Send(feat, "pub_ok")
            /\ UNCHANGED inSend
    /\ UNCHANGED <<client, net, connected, now, pubCtx, hist, proc>>
    /\ UNCHANGED collectorVars

\* ... and from client.publish to the return: lines 147-157
SendPublish(pubres) ==
    /\ inSend # <<>>
    /\ pubCtx' = PublishContext
    /\ inSend' = <<>>
    /\ sends' = sends + 1
    /\ okPub' = IF pubres = "pub_ok" THEN <<inSend[1].t>> ELSE okPub
    /\ sinceFwd' = 0
    /\ connSends' = connSends + 1
    /\ lastSend' = [res |-> pubres, ret |-> send_returns(pubres),
                    t |-> inSend[1].t, before |-> inSend[1].before,
                    okBefore |-> okPub, stamped |-> send_stamps(pubres),
                    feat |-> inSend[1].feat, gap |-> sinceFwd + 1,
                    dup |-> lastSend.res = "pub_ok"
                            /\ lastSend.feat = inSend[1].feat]
    /\ UNCHANGED <<client, net, connected, last_pub_time, now, hist, proc>>
    /\ UNCHANGED collectorVars

\* close() called directly, by the thread that calls send(). It assigns
\* neither self.client nor self.connected; cb: paho runs the on_disconnect
\* callback from inside disconnect(), the network thread being stopped.
Close(cb) ==
    /\ pc = "start"
    /\ inSend = <<>>
    /\ net # "stopped"
    /\ net' = IF client THEN "stopped" ELSE net
    /\ connected' = IF client /\ cb THEN FALSE ELSE connected
    /\ closed' = closed \cup {"data_service"}
    /\ UNCHANGED <<sensorNames, filter_cutoff, bus, buffers, sample_count, pc,
                   raisedBy, now, client, last_pub_time, ticks, lastRead,
                   lastCycle, lastSend, okPub, sends, sinceFwd, connSends, hist,
                   proc, inSend, pubCtx>>

\* MQTTDataService._on_connect, on the network thread of paho
OnConnect(rc) ==
    /\ net = "running"
    /\ connected' = (rc = 0)
    /\ UNCHANGED <<client, net, last_pub_time, lastSend, okPub, sends, sinceFwd,
                   connSends, now, hist, proc,
                   inSend, pubCtx>>
    /\ UNCHANGED collectorVars

\* MQTTDataService._on_disconnect
OnDisconnect ==
    /\ net = "running"
    /\ connected' = FALSE
    /\ UNCHANGED <<client, net, last_pub_time, lastSend, okPub, sends, sinceFwd,
                   connSends, now, hist, proc,
                   inSend, pubCtx>>
    /\ UNCHANGED collectorVars

----------------------------------------------------------------------------
(* MultiSensorDataCollector.run *)

\* The place of a sensor in self.sensors, a dict filled in the order of the
\* configuration's list
Position(s) == CASE s = "torso" -> 1 [] s = "left_hand" -> 2 [] OTHER -> 3

\* The sensor whose close() raises in the finally block, or "none": only
\* bus.close() of an open bus can raise
CloseFailures == {"none"} \cup {s \in sensorNames : bus[s]}

\* The finally block: every sensor.close() in dict order, then data_service.close();
\* a close() that raises (before self.bus = None) ends the block there.
Finally(fail) ==
    LET called == IF fail = "none" THEN sensorNames \cup {"data_service"}
                  ELSE {s \in sensorNames : Position(s) <= Position(fail)}
    IN  /\ closed' = called
        /\ bus' = [s \in sensorNames |->
                     IF s \in called /\ s # fail THEN FALSE ELSE bus[s]]
        /\ net' = IF fail = "none" /\ client THEN "stopped" ELSE net

\* What MQTTDataService.initialize can do: raise (os.path.exists(None) when a
\* certificate variable is unset), return False before the client exists
\* (certificate file missing), return False with the client created
\* (tls_set or connect raised), or start the network loop.
InitOutcomes == {"raise", "no_cert", "no_loop", "ok"}

\* What MQTTDataService.initialize leaves in the object
TransportInit(tres) ==
    /\ client' = (tres \in {"no_loop", "ok"})
    /\ net' = IF tres = "ok" THEN "running" ELSE net

\* self.initialize() and lines 124-126. opened: the sensors whose SMBus opened.
RunInitialize(opened, tres) ==
    /\ pc = "start"
    /\ bus' = [s \in sensorNames |-> s \in opened]
    /\ TransportInit(tres)
    /\ pc' = IF tres = "raise" THEN "raised" ELSE "loop"
    /\ raisedBy' = IF tres = "raise" THEN "transport_init" ELSE raisedBy
    /\ sample_count' = 0
    /\ UNCHANGED <<sensorNames, filter_cutoff, buffers, closed, now, connected,
                   last_pub_time, ticks, lastRead, lastCycle, lastSend, okPub,
                   sends, sinceFwd, connSends, hist, proc,
                   inSend, pubCtx>>

\* What the iteration does after the reads, from the buffers after
\* update_buffers and the new sample count. The status line of lines 146-148
\* reads self.buffers['torso'] whether or not process_and_send built a packet.
CycleOutcome(bufs, count) ==
    IF Ready(bufs) /\ ProcessRaises THEN "extract_raised"
    ELSE IF count % StatusEvery = 0 /\ "torso" \notin sensorNames
         THEN IF Ready(bufs) THEN "status_raised" ELSE "status_raised_unsent"
    ELSE IF ~Ready(bufs) THEN "waiting"
    ELSE "sent"

\* One iteration of the while loop. readings: the dict the reads of lines
\* 131-137 leave (a sensor whose read() raised or returned None is not in it);
\* dt: the time the iteration and its sleep take; pubres: what client.publish
\* does if send() reaches it.
Tick(readings, dt, pubres) ==
    /\ pc = "loop"
    /\ DOMAIN readings \subseteq {s \in sensorNames : bus[s]}
    /\ ticks' = ticks + 1
    /\ lastRead' = readings
    /\ now' = now + dt
    /\ IF DOMAIN readings = {}
       THEN /\ lastCycle' = "no_readings"
            /\ UNCHANGED <<buffers, sample_count, pc, bus, closed, raisedBy, net,
                           client, connected, last_pub_time, lastSend, okPub, sends,
                           sinceFwd, connSends>>
       ELSE LET bufs == update_buffers(buffers, readings)
                out == CycleOutcome(bufs, sample_count + 1)
            IN  /\ buffers' = bufs
                /\ lastCycle' = out
                /\ IF out \in {"sent", "status_raised"}
                   THEN Send(PacketWindows(bufs), pubres)
                   ELSE UNCHANGED <<last_pub_time, lastSend, okPub, sends,
                                    sinceFwd, connSends>>
                /\ sample_count' = IF out = "extract_raised" THEN sample_count
                                   ELSE sample_count + 1
                /\ IF out \in {"extract_raised", "status_raised",
                              "status_raised_unsent"}
                   THEN /\ pc' = "raised"
                        /\ raisedBy' = IF out = "extract_raised" THEN "extract"
                                        ELSE "status"
                        /\ \E fail \in CloseFailures : Finally(fail)
                   ELSE UNCHANGED <<pc, bus, closed, raisedBy, net>>
                /\ UNCHANGED <<client, connected>>
    /\ UNCHANGED <<sensorNames, filter_cutoff, hist, proc,
                   inSend, pubCtx>>

\* Ctrl-C while the loop sleeps: the except clause, then the finally block,
\* out of which a close() that raises takes run()
KeyboardInterrupt(fail) ==
    /\ pc = "loop"
    /\ fail \in CloseFailures
    /\ pc' = IF fail = "none" THEN "returned" ELSE "raised"
    /\ raisedBy' = IF fail = "none" THEN raisedBy ELSE "close"
    /\ Finally(fail)
    /\ UNCHANGED <<sensorNames, filter_cutoff, buffers, sample_count, now, client,
                   connected, last_pub_time, ticks, lastRead, lastCycle,
                   lastSend, okPub, sends, sinceFwd, connSends, hist, proc,
                   inSend, pubCtx>>

----------------------------------------------------------------------------
Init ==
    /\ sensorNames \in SensorConfigs
    /\ filter_cutoff \in {FilterCutoff, SamplingRate \div 2}
    /\ bus = [s \in sensorNames |-> FALSE]
    /\ buffers = EmptyBuffers(sensorNames)
    /\ sample_count = 0
    /\ pc = "start"
    /\ closed = {}
    /\ raisedBy = "none"
    /\ now = Sec(MinPubSec)
    /\ client = FALSE
    /\ net = "none"
    /\ connected = FALSE
    /\ last_pub_time = InitLastPubTime
    /\ ticks = 0
    /\ lastRead = <<>>
    /\ lastCycle = "none"
    /\ lastSend = [res |-> "none", ret |-> FALSE, t |-> 0, before |-> 0,
                   okBefore |-> <<>>, stamped |-> FALSE, feat |-> EmptyBuffers(sensorNames),
                   gap |-> 0, dup |-> FALSE]
    /\ okPub = <<>>
    /\ sends = 0
    /\ sinceFwd = 0
    /\ connSends = 0
    /\ hist = [s \in sensorNames |-> <<>>]
    /\ proc = NoProc
    /\ inSend = <<>>
    /\ pubCtx = "none"

\* A direct call of update_buffers(readings) on the constructed collector
UpdateBuffersCall(readings) ==
    /\ pc = "start"
    /\ \A s \in DOMAIN readings : Len(hist[s]) < WindowSize + ExtraAppends
    /\ buffers' = update_buffers(buffers, readings)
    /\ hist' = [s \in sensorNames |->
                  IF s \in DOMAIN readings THEN Append(hist[s], readings[s])
                  ELSE hist[s]]
    /\ UNCHANGED <<sensorNames, filter_cutoff, bus, sample_count, pc, closed,
                   raisedBy, now, ticks, lastRead, lastCycle, proc>>
    /\ UNCHANGED transportVars

\* The time an iteration takes: the nominal sampling interval, or a stall of
\* a second
\* TremorProcessor(fs, filter_cutoff = cutoff).process called directly, once
\* (the processor keeps no state between calls), the filter giving the
\* series x if it does not raise
ProcessCall(x, fs, cutoff) ==
    /\ pc = "start"
    /\ proc.st = "none"
    /\ proc' = IF FilterRaises(cutoff, fs)
               THEN [st |-> "raised", x |-> x, fs |-> fs, cutoff |-> cutoff,
                     out |-> NoOutput]
               ELSE [st |-> "returned", x |-> x, fs |-> fs, cutoff |-> cutoff,
                     out |-> process(x, fs)]
    /\ UNCHANGED <<sensorNames, filter_cutoff, bus, buffers, sample_count, pc,
                   closed, raisedBy, now, ticks, lastRead, lastCycle, hist>>
    /\ UNCHANGED transportVars

\* initialize() of the transport called directly; an exception leaves the
\* object as the constructor made it
TransportInitialize(tres) ==
    /\ pc = "start"
    /\ ~client
    /\ net = "none"
    /\ TransportInit(tres)
    /\ UNCHANGED <<connected, last_pub_time, lastSend, okPub, sends, sinceFwd,
                   connSends, now, hist, proc, inSend, pubCtx>>
    /\ UNCHANGED collectorVars

\* The minimum publish interval goes by between two calls
Elapse ==
    /\ pc = "start"
    /\ now < Sec(MaxTicks)
    /\ now' = now + Sec(MinPubSec)
    /\ UNCHANGED collectorVars
    /\ UNCHANGED transportVars
    /\ UNCHANGED <<hist, proc>>

TickTimes == {1, Sec(MinPubSec)}

\* Every sensor delivers the sample smp
AllRead(smp) == [s \in sensorNames |-> smp]

(* update_buffers called directly, any readings *)
NextBuf == \E readings \in ReadingsOver(sensorNames) : UpdateBuffersCall(readings)

SpecBuf == Init /\ [][NextBuf]_vars

(* process() called directly, any series, processors of several rates *)
NextProc ==
    \E x \in SeriesSet, fs \in ProcRates :
        \E cutoff \in ProcCutoffs(fs) : ProcessCall(x, fs, cutoff)

SpecProc == Init /\ [][NextProc]_vars

(* run() with any sensor and transport behaviour, the iterations at the     *)
(* nominal rate, up to MaxTicks of them                                     *)
Initialize == \E opened \in SUBSET sensorNames, tres \in InitOutcomes :
                  RunInitialize(opened, tres)

Iterate == /\ ticks < MaxTicks
           /\ \E readings \in ReadingsOver(sensorNames), pubres \in PubOutcomes :
                 Tick(readings, 1, pubres)

Connect == \E rc \in {0, 5} : OnConnect(rc)

Interrupt == \E fail \in sensorNames \cup {"none"} : KeyboardInterrupt(fail)

Next == Initialize \/ Iterate \/ Connect \/ OnDisconnect \/ Interrupt

Spec == Init /\ [][Next]_vars

(* run() called without a duration and never interrupted: the while loop    *)
(* goes on to its next iteration as long as run() is in it                  *)
NextLive == Initialize \/ Iterate \/ Connect \/ OnDisconnect

SpecLive ==
    Init /\ [][NextLive]_vars /\ WF_vars(Initialize) /\ WF_vars(Iterate)

(* run() with sensors that always deliver, iterations that may stall, and   *)
(* any transport behaviour: the cycles the governor sees                    *)
InitializeGov == \E tres \in InitOutcomes : RunInitialize(sensorNames, tres)

IterateGov == /\ ticks < MaxTicks
              /\ \E smp \in Samples, dt \in TickTimes, pubres \in PubOutcomes :
                    Tick(AllRead(smp), dt, pubres)

NextGov == InitializeGov \/ IterateGov \/ Connect \/ OnDisconnect

SpecGov == Init /\ [][NextGov]_vars

(* run() at the nominal rate with sensors that always deliver the same      *)
(* sample and a broker that accepts every publish, for a little more than   *)
(* the summary window                                                       *)
HzTicks == WindowSize + Sec(SummaryWindowSec) + 1

InitializeHz == RunInitialize(sensorNames, "ok")

ConnectHz == OnConnect(0)

IterateHz == /\ ticks < HzTicks
             /\ \E smp \in Samples : smp.x = 1 /\ Tick(AllRead(smp), 1, "pub_ok")

NextHz == InitializeHz \/ ConnectHz \/ IterateHz

SpecHz == Init /\ [][NextHz]_vars

(* The transport called directly by one thread, initialize, send and close  *)
(* in any order, with the callbacks of the network thread in between; the   *)
(* broker accepts every connection                                          *)
InitializeConc == \E tres \in InitOutcomes : TransportInitialize(tres)

SendBeginConc == SendBegin(PacketWindows(buffers))

SendPublishConc == \E pubres \in PubOutcomes : SendPublish(pubres)

CloseConc == \E cb \in BOOLEAN : Close(cb)

NextConc ==
    \/ InitializeConc
    \/ SendBeginConc
    \/ SendPublishConc
    \/ CloseConc
    \/ ConnectHz
    \/ OnDisconnect
    \/ Elapse

SpecConc == Init /\ [][NextConc]_vars

----------------------------------------------------------------------------
(* The claims *)

AllFull(bufs) == \A s \in DOMAIN bufs, a \in Axes : Len(bufs[s][a]) = WindowSize

\* C1: after N calls of update_buffers that include a sensor, each of its
\* axis buffers holds the last min(N, window_size) samples handed in, in the
\* order they were handed in; for N > window_size its length is window_size.
C1_RollingWindow ==
    \A s \in sensorNames, a \in Axes :
        LET N == Len(hist[s])
            k == IF N < WindowSize THEN N ELSE WindowSize
        IN  /\ Len(buffers[s][a]) = k
            /\ \A i \in 1..k : buffers[s][a][i] = hist[s][N - k + i][a]

\* A sensor has been handed more than window_size samples, another fewer
C1_Witness ==
    \E s, o \in sensorNames :
        /\ Len(hist[s]) = WindowSize + ExtraAppends
        /\ Len(hist[o]) < WindowSize
        /\ Len(hist[o]) > 0

\* C2: in every state run() reaches, the x, y and z buffers of a sensor have
\* the same length.
C2_AxesEqualLength ==
    \A s \in sensorNames :
        /\ Len(buffers[s]["x"]) = Len(buffers[s]["y"])
        /\ Len(buffers[s]["y"]) = Len(buffers[s]["z"])

\* The loop has filled one sensor and part of another
C2_Witness ==
    /\ pc = "loop"
    /\ \E s, o \in sensorNames :
        /\ Len(buffers[s]["x"]) = WindowSize
        /\ Len(buffers[o]["x"]) > 0
        /\ Len(buffers[o]["x"]) < WindowSize

\* C3: feature extraction has run, or send has been called, only with every
\* buffer of every configured sensor holding window_size samples.
C3_OnlyWhenAllFull ==
    (lastCycle \in {"sent", "extract_raised", "status_raised"} \/ sends > 0)
        => AllFull(buffers)

\* A packet was assembled and published in an iteration in which a sensor
\* gave no sample
C3_Witness ==
    /\ lastCycle = "sent"
    /\ lastSend.res = "pub_ok"
    /\ DOMAIN lastRead # sensorNames

\* C4: an iteration in which some sensor's read() failed appends the samples
\* of every sensor that was read, leaves the buffers of the failed ones as
\* they were, and the loop goes on to the next iteration.
C4_ReadFailureIsolated ==
    [][(pc = "loop" /\ ticks' = ticks + 1 /\ DOMAIN lastRead' # sensorNames)
        => /\ \A s \in DOMAIN lastRead', a \in Axes :
                 buffers'[s][a] = AppendAxis(buffers[s][a], lastRead'[s][a])
           /\ \A s \in sensorNames \ DOMAIN lastRead' : buffers'[s] = buffers[s]
           /\ pc' = "loop"]_vars

\* C5: a publish that succeeded comes at least the minimum interval after
\* the one that succeeded before it, and a packet handed to send() less than
\* the interval after a successful publish does not reach client.publish.
C5_MinInterval ==
    lastSend.okBefore # <<>> =>
        /\ lastSend.res = "pub_ok"
              => lastSend.t - lastSend.okBefore[1] >= Sec(MinPubSec)
        /\ lastSend.t - lastSend.okBefore[1] < Sec(MinPubSec)
              => lastSend.res \notin PubOutcomes

\* Two publishes succeeded, with a throttled packet between them
C5_Witness ==
    /\ lastSend.res = "pub_ok"
    /\ lastSend.okBefore # <<>>
    /\ lastSend.gap > 1

\* C6: a send() that fails leaves _last_pub_time as it was before the call.
C6_FailedSendKeepsLastPub ==
    lastSend.res \in {"no_client", "not_connected", "pub_rc", "pub_exc"}
        => last_pub_time = lastSend.before

\* C7: of every decimation_factor consecutive cycles handed to the governor
\* on a connected client exactly one reaches client.publish: a cycle that
\* follows an earlier publish is published exactly when it is the
\* decimation_factor-th since, and no decimation_factor cycles in a row are
\* suppressed.
C7_OneInTen ==
    lastSend.res \in PubOutcomes \cup {"throttled"} =>
        IF lastSend.res \in PubOutcomes
        THEN lastSend.before # InitLastPubTime => lastSend.gap = DecimationFactor
        ELSE lastSend.gap < DecimationFactor

\* C8: a packet whose feature windows equal those of the packet before it,
\* which was published, does not reach client.publish.
C8_DeadBand == lastSend.dup => lastSend.res \notin PubOutcomes

\* C9: the first packet handed to send() on an initialised, connected client
\* reaches client.publish.
C9_FirstPacketSent ==
    (connSends = 1 /\ lastSend.res \in PubOutcomes \cup {"throttled"})
        => lastSend.res \in PubOutcomes

\* The first packet that found the client connected was published
C9_Witness ==
    /\ connSends = 1
    /\ lastSend.res = "pub_ok"
    /\ sends > 1

\* C10: two publishes that succeed are at least summary_window_sec apart.
C10_OnePerSummaryWindow ==
    (lastSend.res = "pub_ok" /\ lastSend.okBefore # <<>>)
        => lastSend.t - lastSend.okBefore[1] >= Sec(SummaryWindowSec)

\* C11: an iteration whose feature extraction raised leaves run() in its
\* sampling loop.
C11_ExtractionErrorLocal == lastCycle = "extract_raised" => pc = "loop"

\* C12: no failure of the transport ends run(): an exception out of
\* data_service.initialize() included, run() is not ended by it.
C12_TransportNonFatal == ~(pc = "raised" /\ raisedBy = "transport_init")

\* C13: the error of a cut-off at or above the Nyquist frequency is raised
\* before the loop has read a sample, never by a processing cycle.
C13_NyquistRaisedAtStartup == raisedBy = "extract" => ticks = 0

\* C14: when run() has ended, by return or by exception, close() has been
\* called on every configured sensor and on the data service.
C14_AllClosedOnExit ==
    pc \in {"returned", "raised"} => closed = sensorNames \cup {"data_service"}

\* C18: no step shortens a buffer, so full buffers stay full, and from then
\* on every iteration that has at least one reading runs the extraction and
\* calls data_service.send exactly once.
C18_FullStaysFull ==
    [][/\ \A s \in sensorNames : \A a \in Axes :
            Len(buffers'[s][a]) >= Len(buffers[s][a])
       /\ (pc = "loop" /\ AllFull(buffers) /\ ticks' = ticks + 1
                /\ DOMAIN lastRead' # {})
            => /\ AllFull(buffers')
               /\ lastCycle' \in {"sent", "status_raised"}
               /\ sends' = sends + 1]_vars

\* Two iterations in a row, both with every buffer full, each called send
C18_Witness ==
    /\ pc = "loop"
    /\ AllFull(buffers)
    /\ lastCycle = "sent"
    /\ sends >= 2
    /\ lastSend.res \in PubOutcomes

\* C19: a send() that finds the client connected and the last publish less
\* than one second old returns True, has not called client.publish and has
\* left _last_pub_time alone, and has already put timestamp, device_id and
\* data_version into the packet.
C19_ThrottledSendFrame ==
    lastSend.res = "throttled" =>
        /\ Throttled(lastSend.t, lastSend.before)
        /\ lastSend.ret
        /\ last_pub_time = lastSend.before
        /\ okPub = lastSend.okBefore
        /\ sinceFwd = lastSend.gap
        /\ lastSend.stamped

\* A send() was cut short by the interval check after an earlier publish
C19_Witness ==
    /\ lastSend.res = "throttled"
    /\ lastSend.before # InitLastPubTime
    /\ lastSend.t > lastSend.before

\* C20: when a packet is assembled, every sensor's window ends with a sample
\* read in that same iteration.
C20_TimeAligned ==
    lastCycle \in {"sent", "status_raised"} => DOMAIN lastRead = sensorNames

\* C15: process() returns a tremor_index between 0 and 1 and an rms that is
\* not negative (the root of a mean of squares that is not negative).
C15_IndexInUnitInterval ==
    proc.st = "returned" =>
        /\ proc.out.tremor_index.d > 0
        /\ 0 <= proc.out.tremor_index.n
        /\ proc.out.tremor_index.n <= proc.out.tremor_index.d
        /\ proc.out.rms_sq.d > 0
        /\ proc.out.rms_sq.n >= 0

\* A series with power inside and outside the band
C15_Witness ==
    /\ proc.st = "returned"
    /\ 0 < proc.out.tremor_index.n
    /\ proc.out.tremor_index.n < proc.out.tremor_index.d

\* C16: is_parkinsonian is true exactly when the frequency of the first
\* largest bin of the spectrum, the DC bin among the candidates, lies in
\* [3, 6] and the returned tremor_index is above 0.3; a series whose DC bin
\* is at least as large as every other bin is not classified parkinsonian.
C16_Classification ==
    proc.st = "returned" =>
        LET N     == Len(proc.x)
            P(k)  == FftPower4(proc.x, k)
            first == CHOOSE k \in Bins(N) :
                        /\ \A j \in Bins(N) : P(j) <= P(k)
                        /\ \A j \in 0..(k - 1) : P(j) < P(k)
        IN  /\ proc.out.dominant_freq = [n |-> first * proc.fs, d |-> N]
            /\ proc.out.is_parkinsonian <=>
                   /\ TremorBandLow * N <= first * proc.fs
                   /\ first * proc.fs <= TremorBandHigh * N
                   /\ 10 * proc.out.tremor_index.n
                        > IndexThresholdTenths * proc.out.tremor_index.d
            /\ (\A j \in Bins(N) : P(j) <= P(0)) => ~proc.out.is_parkinsonian

\* A series whose DC bin is the largest although more than 0.3 of its power
\* is in the band
C16_Witness ==
    /\ proc.st = "returned"
    /\ proc.out.dominant_freq.n = 0
    /\ AboveThreshold(proc.out.tremor_index)
    /\ ~proc.out.is_parkinsonian

\* C17: for the all-zero series process() returns rms 0, tremor_index 0
\* (set by the test of total_power, no quotient by 0 taken) and
\* is_parkinsonian false.
C17_ZeroWindow ==
    (proc.st = "returned" /\ \A i \in 1..Len(proc.x) : proc.x[i] = 0) =>
        /\ proc.out.rms_sq.n = 0
        /\ proc.out.tremor_index.d # 0
        /\ proc.out.tremor_index.n = 0
        /\ ~proc.out.is_parkinsonian

\* process() has returned for the all-zero series
C17_Witness ==
    /\ proc.st = "returned"
    /\ Len(proc.x) = SeriesLen
    /\ \A i \in 1..Len(proc.x) : proc.x[i] = 0
    /\ proc.out.tremor_power.n = 0

\* C21: if every configured sensor comes to have delivered window_size
\* samples, a packet is handed to data_service.send at some time.
C21_EventuallySends == <>AllFull(buffers) => <>(sends > 0)

\* C22: the status report of every StatusEvery-th sample never ends run(),
\* whatever the configured sensors are called.
C22_StatusReportHarmless == ~(pc = "raised" /\ raisedBy = "status")

\* C23: client.publish is called only while the connection is established:
\* not after a disconnect callback that no successful connect followed, and
\* not after close().
C23_PublishOnlyConnected == pubCtx \in {"none", "connected"}

============================================================================
